---------------------------- MODULE Spec2Model ----------------------------
(***************************************************************************)
(* FleetArmor-backend: the form-submission servers.                        *)
(*                                                                         *)
(* The repository holds two programs of the same shape:                    *)
(*   "fleet"  src/server.js         submit-fleet-worker, submit-company    *)
(*   "guard"  src/unnamed/part_000  submit-guard, submit-company           *)
(* Each request runs  limiter -> body parser -> validation chains ->       *)
(* handler -> two sendMail calls joined by Promise.all -> response.        *)
(*                                                                         *)
(* A string is a sequence of one-character strings; a literal fragment of  *)
(* a template or lookup table is written as a one-element sequence holding *)
(* the whole fragment.  A request body is a function from the names of the *)
(* fields it carries to strings; a missing field is not in its DOMAIN.     *)
(***************************************************************************)
EXTENDS Integers, Sequences, FiniteSets, TLC

(***************************************************************************)
(* Strings                                                                 *)
(***************************************************************************)
UpperChars == <<"A","B","C","D","E","F","G","H","I","J","K","L","M",
                "N","O","P","Q","R","S","T","U","V","W","X","Y","Z">>

LowerChars == <<"a","b","c","d","e","f","g","h","i","j","k","l","m",
                "n","o","p","q","r","s","t","u","v","w","x","y","z">>

DigitChars == {"0","1","2","3","4","5","6","7","8","9"}

Range(s) == {s[i] : i \in DOMAIN s}

IsUpper(c) == c \in Range(UpperChars)

IsLower(c) == c \in Range(LowerChars)

IsAlpha(c) == IsUpper(c) \/ IsLower(c)

IsDigit(c) == c \in DigitChars

\* \s of the regular expressions, on the characters the inputs use
IsSpace(c) == c \in {" ", "\t", "\n"}

\* String.prototype.toLowerCase, one character
LowerChar(c) ==
    IF IsUpper(c) THEN LowerChars[CHOOSE i \in DOMAIN UpperChars : UpperChars[i] = c]
                  ELSE c

ToLowerCase(s) == [i \in DOMAIN s |-> LowerChar(s[i])]

\* n copies of the character c
Rep(c, n) == [i \in 1..n |-> c]

RECURSIVE LTrim(_)
LTrim(s) == IF s # <<>> /\ IsSpace(Head(s)) THEN LTrim(Tail(s)) ELSE s

RECURSIVE RTrim(_)
RTrim(s) ==
    IF s # <<>> /\ IsSpace(s[Len(s)]) THEN RTrim(SubSeq(s, 1, Len(s) - 1)) ELSE s

\* Trim left out of a chain: the value is validated as sent
NoTrim(s) == s

\* the trim() sanitizer: strips whitespace from both ends
Trim(s) == RTrim(LTrim(s))

\* String.prototype.split on a one-character separator
RECURSIVE Split(_, _)
Split(s, sep) ==
    IF \E i \in DOMAIN s : s[i] = sep
    THEN LET i == CHOOSE j \in DOMAIN s : s[j] = sep /\ \A k \in 1..(j-1) : s[k] # sep
         IN  <<SubSeq(s, 1, i - 1)>> \o Split(SubSeq(s, i + 1, Len(s)), sep)
    ELSE <<s>>

\* Array.prototype.join with a one-character separator
RECURSIVE Join(_, _)
Join(parts, sep) ==
    IF parts = <<>> THEN <<>>
    ELSE IF Len(parts) = 1 THEN parts[1]
    ELSE parts[1] \o <<sep>> \o Join(Tail(parts), sep)

\* str.replace(/c+/g, ''): the string without the character c
RECURSIVE Without(_, _)
Without(s, c) ==
    IF s = <<>> THEN <<>>
    ELSE IF Head(s) = c THEN Without(Tail(s), c)
    ELSE <<Head(s)>> \o Without(Tail(s), c)

(***************************************************************************)
(* express-validator / validator.js rules used by the chains               *)
(***************************************************************************)
\* notEmpty(): the (already stringified) value has at least one character
NotEmpty(s) == Len(s) > 0

\* isLength({min, max})
IsLength(s, min, max) == Len(s) >= min /\ Len(s) <= max

\* matches(/^\+?[\d\s-]{10,}$/): an optional plus sign, then ten or more
\* characters, each a digit, whitespace or a hyphen
PhoneChar(c) == IsDigit(c) \/ IsSpace(c) \/ c = "-"

MinPhoneChars == 10

MatchesPhone(s) ==
    LET rest == IF s # <<>> /\ Head(s) = "+" THEN Tail(s) ELSE s
    IN  /\ Len(rest) >= MinPhoneChars
        /\ \A i \in DOMAIN rest : PhoneChar(rest[i])

\* a character of the user part of isEmail: a letter, a digit, or one of the
\* punctuation characters of its emailUserPart pattern
UserChar(c) ==
    IsAlpha(c) \/ IsDigit(c) \/ c \in {"!", "#", "$", "%", "&", "+", "-", "/", "=", "?", "^", "_", "~"}

\* a label of isFQDN: letters, digits and hyphens, no hyphen at either end,
\* at most 63 long
DomainLabel(p) ==
    /\ p # <<>>
    /\ Len(p) <= 63
    /\ \A i \in DOMAIN p : IsAlpha(p[i]) \/ IsDigit(p[i]) \/ p[i] = "-"
    /\ p[1] # "-"
    /\ p[Len(p)] # "-"

\* isFQDN with require_tld: two labels or more, the last one two or more letters
IsFQDN(d) ==
    LET parts == Split(d, ".")
        tld   == parts[Len(parts)]
    IN  /\ Len(parts) >= 2
        /\ Len(tld) >= 2
        /\ \A i \in DOMAIN tld : IsAlpha(tld[i])
        /\ \A i \in DOMAIN parts : DomainLabel(parts[i])

\* str.split('@'); domain = parts.pop(); user = parts.join('@')
EmailDomain(s) == LET parts == Split(s, "@") IN parts[Len(parts)]

EmailUser(s) ==
    LET parts == Split(s, "@") IN Join(SubSeq(parts, 1, Len(parts) - 1), "@")

\* isEmail() with the default options
IsEmail(s) ==
    LET user   == EmailUser(s)
        domain == EmailDomain(s)
        atoms  == Split(user, ".")
    IN  /\ Len(user) <= 64
        /\ Len(domain) <= 254
        /\ IsFQDN(domain)
        /\ \A i \in DOMAIN atoms :
              /\ atoms[i] # <<>>
              /\ \A j \in DOMAIN atoms[i] : UserChar(atoms[i][j])

GmailDomain == <<"g","m","a","i","l",".","c","o","m">>

GooglemailDomain == <<"g","o","o","g","l","e","m","a","i","l",".","c","o","m">>

\* NormalizeEmail with all_lowercase off: only the domain is lowercased
NormalizeEmailKeepCase(s) == EmailUser(s) \o <<"@">> \o ToLowerCase(EmailDomain(s))

\* normalizeEmail() with the default options: the domain is lowercased; a
\* gmail / googlemail address loses its plus-tag and its dots and becomes
\* gmail.com; the local part is lowercased (all_lowercase)
NormalizeEmail(s) ==
    LET user   == EmailUser(s)
        domain == ToLowerCase(EmailDomain(s))
    IN  IF domain \in {GmailDomain, GooglemailDomain}
        THEN ToLowerCase(Without(Split(user, "+")[1], ".")) \o <<"@">> \o GmailDomain
        ELSE ToLowerCase(user) \o <<"@">> \o domain


(***************************************************************************)
(* Validation chains.  A step of a chain is a sanitizer or a validator;    *)
(* a chain is body(field) followed by its steps, in the order written.     *)
(***************************************************************************)
San(op) == [op |-> op, min |-> 0, max |-> 0, msg |-> ""]

Val(op, msg) == [op |-> op, min |-> 0, max |-> 0, msg |-> msg]

Len2(min, max, msg) == [op |-> "isLength", min |-> min, max |-> max, msg |-> msg]

Chain(field, steps) == [field |-> field, steps |-> steps]

\* src/server.js: validateFleetWorkerRequest
validateFleetWorkerRequest == <<
    Chain("firstName", <<San("trim"), Val("notEmpty", "First name is required"),
        Len2(2, 50, "First name must be between 2 and 50 characters")>>),
    Chain("lastName", <<San("trim"), Val("notEmpty", "Last name is required"),
        Len2(2, 50, "Last name must be between 2 and 50 characters")>>),
    Chain("email", <<San("trim"), Val("isEmail", "Valid email is required"),
        San("normalizeEmail")>>),
    Chain("phone", <<San("trim"), Val("matches", "Valid phone number is required")>>),
    Chain("city", <<San("trim"), Val("notEmpty", "City is required"),
        Len2(2, 100, "City must be between 2 and 100 characters")>>),
    Chain("specialtyCategory", <<San("trim"), Val("notEmpty", "Specialty category is required")>>),
    Chain("specialtySubcategory", <<San("trim"), Val("notEmpty", "Specialty subcategory is required")>>),
    Chain("yearsOfExperience", <<San("trim"), Val("notEmpty", "Years of experience is required")>>),
    Chain("cdlLicense", <<San("optional"), San("trim"),
        Len2(0, 100, "CDL license must not exceed 100 characters")>>),
    Chain("details", <<San("trim"), Len2(0, 1000, "Details must not exceed 1000 characters")>>) >>

\* src/server.js: validateCompanyRequest (fleet companies)
validateFleetCompanyRequest == <<
    Chain("companyName", <<San("trim"), Val("notEmpty", "Company name is required"),
        Len2(2, 100, "Company name must be between 2 and 100 characters")>>),
    Chain("email", <<San("trim"), Val("isEmail", "Valid email is required"),
        San("normalizeEmail")>>),
    Chain("phone", <<San("trim"), Val("matches", "Valid phone number is required")>>),
    Chain("firstName", <<San("trim"), Val("notEmpty", "First name is required")>>),
    Chain("lastName", <<San("trim"), Val("notEmpty", "Last name is required")>>),
    Chain("cityProvince", <<San("trim"), Val("notEmpty", "City & Province is required")>>),
    Chain("majorArea", <<San("trim"), Val("notEmpty", "Major area is required")>>),
    Chain("details", <<San("trim"), Len2(0, 1000, "Details must not exceed 1000 characters")>>) >>

\* src/unnamed/part_000: validateGuardRequest
validateGuardRequest == <<
    Chain("fullName", <<San("trim"), Val("notEmpty", "Full name is required"),
        Len2(2, 100, "Name must be between 2 and 100 characters")>>),
    Chain("email", <<San("trim"), Val("isEmail", "Valid email is required"),
        San("normalizeEmail")>>),
    Chain("phone", <<San("trim"), Val("matches", "Valid phone number is required")>>),
    Chain("city", <<San("trim"), Val("notEmpty", "City is required")>>),
    Chain("license", <<San("trim"), Val("notEmpty", "Security guard license is required")>>),
    Chain("yearsOfExperience", <<San("trim"), Val("notEmpty", "Years of experience is required")>>),
    Chain("details", <<San("trim"), Len2(0, 1000, "Details must not exceed 1000 characters")>>) >>

\* src/unnamed/part_000: validateCompanyRequest (security companies)
validateGuardCompanyRequest == <<
    Chain("companyName", <<San("trim"), Val("notEmpty", "Company name is required"),
        Len2(2, 100, "Company name must be between 2 and 100 characters")>>),
    Chain("email", <<San("trim"), Val("isEmail", "Valid email is required"),
        San("normalizeEmail")>>),
    Chain("phone", <<San("trim"), Val("matches", "Valid phone number is required")>>),
    Chain("firstName", <<San("trim"), Val("notEmpty", "First name is required")>>),
    Chain("lastName", <<San("trim"), Val("notEmpty", "Last name is required")>>),
    Chain("city", <<San("trim"), Val("notEmpty", "City is required")>>),
    Chain("securityGuardType", <<San("trim"), Val("notEmpty", "Security guard type is required")>>),
    Chain("numberOfGuards", <<San("trim"), Val("notEmpty", "Number of guards is required")>>),
    Chain("service", <<San("trim"), Val("notEmpty", "Service type is required")>>),
    Chain("details", <<San("trim"), Len2(0, 1000, "Details must not exceed 1000 characters")>>) >>

\* one sanitizer applied to a value
Sanitize(op, v) ==
    CASE op = "trim"           -> Trim(v)
      [] op = "normalizeEmail" -> NormalizeEmail(v)
      [] OTHER                 -> v

\* one validator applied to a value: TRUE when the value passes
Passes(step, v) ==
    CASE step.op = "notEmpty" -> NotEmpty(v)
      [] step.op = "isLength" -> IsLength(v, step.min, step.max)
      [] step.op = "isEmail"  -> IsEmail(v)
      [] step.op = "matches"  -> MatchesPhone(v)
      [] OTHER                -> TRUE

IsValidator(step) == step.op \in {"notEmpty", "isLength", "isEmail", "matches"}

\* the steps of one chain from step i on, run in order on the current value:
\* a sanitizer replaces the value, a failing validator appends one error and
\* the chain goes on (no bail)
RECURSIVE RunSteps(_, _, _, _, _)
RunSteps(field, steps, i, v, errs) ==
    IF i > Len(steps) THEN [value |-> v, errors |-> errs]
    ELSE LET step == steps[i] IN
         IF IsValidator(step)
         THEN RunSteps(field, steps, i + 1, v,
                  IF Passes(step, v) THEN errs
                  ELSE Append(errs, [param |-> field, msg |-> step.msg, value |-> v]))
         ELSE RunSteps(field, steps, i + 1, Sanitize(step.op, v), errs)

\* optional(): the chain is skipped when the field is undefined
Skipped(chain, body) ==
    /\ \E i \in DOMAIN chain.steps : chain.steps[i].op = "optional"
    /\ chain.field \notin DOMAIN body

\* one chain run against req.body: an undefined field is validated as the
\* empty string; the sanitized value is written back to req.body
RunChain(chain, body) ==
    IF Skipped(chain, body) THEN [body |-> body, errors |-> <<>>]
    ELSE LET v0 == IF chain.field \in DOMAIN body THEN body[chain.field] ELSE <<>>
             r  == RunSteps(chain.field, chain.steps, 1, v0, <<>>)
         IN  [body   |-> [f \in DOMAIN body \cup {chain.field} |->
                              IF f = chain.field THEN r.value ELSE body[f]],
              errors |-> r.errors]

\* the chains of a route run as middlewares, one after the other; the errors
\* accumulate in the order the chains are declared
RECURSIVE RunChains(_, _, _, _)
RunChains(chains, i, body, errs) ==
    IF i > Len(chains) THEN [body |-> body, errors |-> errs]
    ELSE LET r == RunChain(chains[i], body)
         IN  RunChains(chains, i + 1, r.body, errs \o r.errors)

\* validationResult(req) after the chains of a route: the sanitized body and
\* errors.array()
Validate(chains, body) == RunChains(chains, 1, body, <<>>)


(***************************************************************************)
(* The two programs: routes, limiter mounts, rule tables                   *)
(***************************************************************************)
Programs == {"fleet", "guard"}

FleetWorkerPath == "/api/submit-fleet-worker"

CompanyPath == "/api/submit-company"

GuardPath == "/api/submit-guard"

QuotePath == "/api/submit-quote"

HealthPath == "/api/health"

OtherPath == "/api/other"

FormPaths == {FleetWorkerPath, CompanyPath, GuardPath, QuotePath}

\* app.use(path, limiter): the paths the limiter is mounted on
LimitedPaths(prog) ==
    IF prog = "fleet" THEN {CompanyPath, FleetWorkerPath} ELSE {QuotePath}

\* app.post(path, chains, handler): the form routes that have a handler
PostRoutes(prog) ==
    IF prog = "fleet" THEN {FleetWorkerPath, CompanyPath} ELSE {GuardPath, CompanyPath}

\* the validation chains mounted on a form route
ChainsOf(prog, path) ==
    CASE prog = "fleet" /\ path = FleetWorkerPath -> validateFleetWorkerRequest
      [] prog = "fleet" /\ path = CompanyPath     -> validateFleetCompanyRequest
      [] prog = "guard" /\ path = GuardPath       -> validateGuardRequest
      [] prog = "guard" /\ path = CompanyPath     -> validateGuardCompanyRequest
      [] OTHER                                    -> <<>>

\* rateLimit({windowMs, max: 5, message})
RateMax == 5

RateMessage == "Too many requests from this IP, please try again later."

(***************************************************************************)
(* Process configuration (process.env)                                     *)
(***************************************************************************)
SenderEmail == <<"sender@fleetarmor.example">>

AdminEmail == <<"admin@fleetarmor.example">>

\* the environments the process may be started in; an unset ADMIN_EMAIL is
\* the empty string
Environments ==
    [NODE_ENV : {"production", "development"}, ADMIN_EMAIL : {AdminEmail, <<>>},
     EMAIL_USER : {SenderEmail}]

\* process.env.ADMIN_EMAIL || process.env.EMAIL_USER
AdminTo(e) == IF e.ADMIN_EMAIL # <<>> THEN e.ADMIN_EMAIL ELSE e.EMAIL_USER

(***************************************************************************)
(* Rendering                                                               *)
(***************************************************************************)
\* a destructured field of req.body inside a template literal
Get(b, f) == IF f \in DOMAIN b THEN b[f] ELSE <<"undefined">>

\* JavaScript truthiness of a destructured string field
Truthy(b, f) == f \in DOMAIN b /\ b[f] # <<>>

\* const specialtyCategories = {...}: the object's own properties
specialtyCategories ==
    [k \in {<<"A">>, <<"B">>, <<"C">>, <<"D">>, <<"E">>} |->
        CASE k = <<"A">> -> <<"Management & Operations">>
          [] k = <<"B">> -> <<"Technical & Maintenance Jobs">>
          [] k = <<"C">> -> <<"Snow & Wind Services">>
          [] k = <<"D">> -> <<"Fleet Vehicle Operator Roles">>
          [] k = <<"E">> -> <<"Fleet Drivers & Other Support Jobs">>]

KeyConstructor == <<"c","o","n","s","t","r","u","c","t","o","r">>

KeyToString == <<"t","o","S","t","r","i","n","g">>

KeyValueOf == <<"v","a","l","u","e","O","f">>

\* what an object literal inherits from Object.prototype, as a template
\* literal prints it
ObjectPrototype ==
    [k \in {KeyConstructor, KeyToString, KeyValueOf} |->
        CASE k = KeyConstructor -> <<"function Object() { [native code] }">>
          [] k = KeyToString    -> <<"function toString() { [native code] }">>
          [] k = KeyValueOf     -> <<"function valueOf() { [native code] }">>]

\* specialtyCategories[specialtyCategory] || specialtyCategory: the property
\* read walks the prototype chain, every value found there is truthy
categoryLabel(code) ==
    IF code \in DOMAIN specialtyCategories THEN specialtyCategories[code]
    ELSE IF code \in DOMAIN ObjectPrototype THEN ObjectPrototype[code]
    ELSE code

Mail(kind, from, to, subject, replyTo, html) ==
    [kind |-> kind, from |-> from, to |-> to, subject |-> subject,
     replyTo |-> replyTo, html |-> html, state |-> "pending", error |-> ""]

\* a mail option object without replyTo
NoReplyTo == <<>>

\* `${details || 'No additional details provided'}`
DetailsOrDefault(b) ==
    IF Truthy(b, "details") THEN b["details"] ELSE <<"No additional details provided">>

\* `${cdlLicense ? `<p>...${cdlLicense}</p>` : ''}`
CdlFragment(b) == IF Truthy(b, "cdlLicense") THEN b["cdlLicense"] ELSE <<>>

FullName(b) == Get(b, "firstName") \o <<" ">> \o Get(b, "lastName")

\* src/server.js submit-fleet-worker: adminMailOptions, workerMailOptions
FleetWorkerMails(b, e) ==
    LET label == categoryLabel(Get(b, "specialtyCategory")) IN
    << Mail("admin", e.EMAIL_USER, AdminTo(e), "New Fleet Worker Application",
            Get(b, "email"),
            [Name |-> FullName(b), Email |-> Get(b, "email"), Phone |-> Get(b, "phone"),
             City |-> Get(b, "city"),
             Category |-> Get(b, "specialtyCategory"), Label |-> label,
             Specific |-> Get(b, "specialtySubcategory"),
             Years |-> Get(b, "yearsOfExperience"),
             Cdl |-> CdlFragment(b), Details |-> DetailsOrDefault(b)]),
       Mail("ack", e.EMAIL_USER, Get(b, "email"), "Fleet Worker Application Received",
            NoReplyTo,
            [Name |-> FullName(b), City |-> Get(b, "city"), Label |-> label,
             Specific |-> Get(b, "specialtySubcategory"),
             Years |-> Get(b, "yearsOfExperience"), Cdl |-> CdlFragment(b)]) >>

\* src/server.js submit-company: adminMailOptions, companyMailOptions
FleetCompanyMails(b, e) ==
    << Mail("admin", e.EMAIL_USER, AdminTo(e), "New Fleet Company Request",
            Get(b, "email"),
            [Company |-> Get(b, "companyName"), Name |-> FullName(b),
             Email |-> Get(b, "email"), Phone |-> Get(b, "phone"),
             Location |-> Get(b, "cityProvince"), Area |-> Get(b, "majorArea"),
             Details |-> DetailsOrDefault(b)]),
       Mail("ack", e.EMAIL_USER, Get(b, "email"), "Fleet Service Request Received",
            NoReplyTo,
            [Name |-> FullName(b), Company |-> Get(b, "companyName"),
             Location |-> Get(b, "cityProvince"), Area |-> Get(b, "majorArea")]) >>

\* src/unnamed/part_000 submit-guard: adminMailOptions, applicantMailOptions
GuardMails(b, e) ==
    << Mail("admin", e.EMAIL_USER, AdminTo(e), "New Security Guard Application",
            Get(b, "email"),
            [Name |-> Get(b, "fullName"), Email |-> Get(b, "email"),
             Phone |-> Get(b, "phone"), City |-> Get(b, "city"),
             License |-> Get(b, "license"), Years |-> Get(b, "yearsOfExperience"),
             Details |-> Get(b, "details")]),
       Mail("ack", e.EMAIL_USER, Get(b, "email"), "Application Received - GuardArmor Security",
            NoReplyTo,
            [Name |-> Get(b, "fullName"), License |-> Get(b, "license"),
             Years |-> Get(b, "yearsOfExperience"), City |-> Get(b, "city")]) >>

\* src/unnamed/part_000 submit-company: adminMailOptions, companyMailOptions
GuardCompanyMails(b, e) ==
    << Mail("admin", e.EMAIL_USER, AdminTo(e), "New Company Security Request",
            Get(b, "email"),
            [Company |-> Get(b, "companyName"), Name |-> FullName(b),
             Email |-> Get(b, "email"), Phone |-> Get(b, "phone"),
             City |-> Get(b, "city"), GuardType |-> Get(b, "securityGuardType"),
             Guards |-> Get(b, "numberOfGuards"), Service |-> Get(b, "service"),
             Details |-> Get(b, "details")]),
       Mail("ack", e.EMAIL_USER, Get(b, "email"),
            "Security Service Request Received - Guard Armor", NoReplyTo,
            [Name |-> FullName(b), Company |-> Get(b, "companyName"),
             GuardType |-> Get(b, "securityGuardType"),
             Guards |-> Get(b, "numberOfGuards"), Service |-> Get(b, "service"),
             City |-> Get(b, "city")]) >>

\* the two mail option objects a handler builds from the validated body
MailsOf(prog, path, b, e) ==
    CASE prog = "fleet" /\ path = FleetWorkerPath -> FleetWorkerMails(b, e)
      [] prog = "fleet" /\ path = CompanyPath     -> FleetCompanyMails(b, e)
      [] prog = "guard" /\ path = GuardPath       -> GuardMails(b, e)
      [] prog = "guard" /\ path = CompanyPath     -> GuardCompanyMails(b, e)

\* the message of the success response of a handler
SuccessMessage(prog, path) ==
    CASE prog = "fleet" /\ path = FleetWorkerPath -> "Fleet worker application submitted successfully"
      [] prog = "fleet" /\ path = CompanyPath     -> "Company request submitted successfully"
      [] prog = "guard" /\ path = GuardPath       -> "Application submitted successfully"
      [] prog = "guard" /\ path = CompanyPath     -> "Request submitted successfully"


(***************************************************************************)
(* Responses                                                               *)
(***************************************************************************)
\* a JSON response: keys names the keys the body carries
Response(status, keys, message, state, errs, error, text) ==
    [status |-> status, keys |-> keys, message |-> message, state |-> state,
     errors |-> errs, error |-> error, text |-> text]

\* no response sent yet
NoResp == Response(0, {}, "", "", <<>>, "", "")

\* res.status(200).json({ message, status: 'success' })
Success(message) == Response(200, {"message", "status"}, message, "success", <<>>, "", "")

\* res.status(400).json({ errors: errors.array() })
BadRequest(errs) == Response(400, {"errors"}, "", "", errs, "", "")

\* res.status(n).json({ error })
ErrorJson(status, error) == Response(status, {"error"}, "", "", <<>>, error, "")

\* res.status(404).json({ error: 'Route not found' })
NotFound == ErrorJson(404, "Route not found")

\* the limiter's own rejection: 429 with the configured text
TooManyRequests == Response(429, {}, "", "", <<>>, "", RateMessage)

\* res.status(200).json({ status: 'healthy', timestamp })
Healthy == Response(200, {"status", "timestamp"}, "", "healthy", <<>>, "", "")

GenericError == "An error occurred"

\* errorHandler without the production redaction
errorHandlerLeaky(err, e) ==
    ErrorJson(IF err.status # 0 THEN err.status ELSE 500, err.message)

\* errorHandler: res.status(err.status || 500).json({ error: production ?
\* 'An error occurred' : err.message }); status 0 stands for no err.status
errorHandler(err, e) ==
    ErrorJson(IF err.status # 0 THEN err.status ELSE 500,
              IF e.NODE_ENV = "production" THEN GenericError ELSE err.message)

\* logger.error('Error:', { error: err.message, ... })
ErrorLog(err) == [level |-> "error", message |-> err.message]

\* logger.info('... submitted successfully', { ... })
InfoLog(message) == [level |-> "info", message |-> message]

\* what sendMail rejects with: nodemailer errors carry message and code,
\* and no status property
DeliveryErrors ==
    { [message |-> "Invalid login", status |-> 0],
      [message |-> "Connection timeout", status |-> 0] }

\* what express.json() raises on a body it cannot parse
ParseErrors == { [message |-> "Unexpected token in JSON", status |-> 400] }

(***************************************************************************)
(* Handlers                                                                *)
(***************************************************************************)
Outcome(body, errs, ms, r, p, l) ==
    [body |-> body, errors |-> errs, mails |-> ms, resp |-> r, pc |-> p, log |-> l]

\* FormHandler with the return of the 400 branch lost: the handler goes on to
\* build and send the mails
FormHandlerNoReturn(prog, e, path, body) ==
    LET v == Validate(ChainsOf(prog, path), body) IN
    IF v.errors # <<>>
    THEN Outcome(v.body, v.errors, MailsOf(prog, path, v.body, e), BadRequest(v.errors),
                 "responded", <<>>)
    ELSE Outcome(v.body, <<>>, MailsOf(prog, path, v.body, e), NoResp, "dispatching", <<>>)

\* a form handler up to its await: validationResult, the 400 return, the
\* two mail option objects, the two sendMail calls
FormHandler(prog, e, path, body) ==
    LET v == Validate(ChainsOf(prog, path), body) IN
    IF v.errors # <<>>
    THEN Outcome(v.body, v.errors, <<>>, BadRequest(v.errors), "responded", <<>>)
    ELSE Outcome(v.body, <<>>, MailsOf(prog, path, v.body, e), NoResp, "dispatching", <<>>)

\* the middleware stack after the limiter let the request through
Dispatch(prog, e, method, path, body) ==
    IF method = "POST" /\ path \in PostRoutes(prog) THEN FormHandler(prog, e, path, body)
    ELSE IF method = "GET" /\ path = HealthPath
    THEN Outcome(body, <<>>, <<>>, Healthy, "responded", <<>>)
    ELSE Outcome(body, <<>>, <<>>, NotFound, "responded", <<>>)

\* Counted with the limiter mounted on submit-company alone
CountedCompanyOnly(prog, path, h) ==
    IF prog = "fleet" /\ path = CompanyPath THEN h + 1 ELSE h

\* the limiter on a mounted path: the count after this request
Counted(prog, path, h) == IF path \in LimitedPaths(prog) THEN h + 1 ELSE h

\* the limiter rejects when the count exceeds max
Limited(prog, path, h) == path \in LimitedPaths(prog) /\ Counted(prog, path, h) > RateMax

\* AllSent as a race: the first resolved sendMail resolves the await
AnySent(ms) == \E i \in DOMAIN ms : ms[i].state = "sent"

\* await Promise.all([...]) resolves when every sendMail has resolved
AllSent(ms) == \A i \in DOMAIN ms : ms[i].state = "sent"

\* sendMail i resolved
MarkSent(ms, i) == [ms EXCEPT ![i].state = "sent"]

\* MarkFailed with a retry: the rejected mail is handed to sendMail again
MarkFailedRetry(ms, i, err) ==
    Append([ms EXCEPT ![i].state = "failed", ![i].error = err.message],
           [ms[i] EXCEPT !.state = "pending"])

\* sendMail i rejected with err; nothing is sent again
MarkFailed(ms, i, err) == [ms EXCEPT ![i].state = "failed", ![i].error = err.message]

Pending(ms) == {i \in DOMAIN ms : ms[i].state = "pending"}

\* Awaiting with the continuation run at every settlement, also after the
\* promise of Promise.all has settled
AwaitingAlways(p) == TRUE

\* the handler is suspended at await Promise.all([...]): the promise has not
\* settled yet, so the next settlement can resume the handler
Awaiting(p) == p = "dispatching"

(***************************************************************************)
(* Inputs                                                                  *)
(***************************************************************************)
Empty == <<>>

Blank == <<" ", " ">>

NameOk == <<"J", "o">>

NamePadded == <<" ", "J", "o", " ">>

NameShort == <<"J">>

EmailOk == <<"a", "@", "b", ".", "c", "o">>

EmailMixed == <<" ","J","o","@","E","x","a","m","p","l","e",".","c","o","m"," ">>

EmailGmail == <<"J",".","o","+","x","@","G","m","a","i","l",".","c","o","m">>

EmailBad == <<"n","o","t","-","a","n","-","e","m","a","i","l">>

PhoneOk == <<"5","5","5","-","1","2","3","-","4","5","6","7">>

PhonePadded == <<" ","+","1","5","5","5","1","2","3","4","5","6","7"," ">>

PhoneShort == <<"1", "2", "3">>

\* how far past a length limit the long inputs go
Over == 1

Long(n) == Rep("x", n + Over)

Default(f) ==
    CASE f = "email"             -> EmailOk
      [] f = "phone"             -> PhoneOk
      [] f = "specialtyCategory" -> <<"A">>
      [] OTHER                   -> NameOk

Alternatives(f) ==
    CASE f = "email"   -> {EmailMixed, EmailGmail, EmailBad, Empty, Blank}
      [] f = "phone"   -> {PhonePadded, Rep("-", MinPhoneChars), PhoneShort, Empty, Blank}
      [] f = "specialtyCategory" ->
             {<<"B">>, <<"C">>, <<"D">>, <<"E">>, <<"Z">>, <<" ", "A", " ">>,
              KeyConstructor, Empty, Blank}
      [] f = "cdlLicense" -> {Empty, <<"C", "D", "L">>, Long(100)}
      [] f = "details" -> {Empty, Blank, Long(1000)}
      [] OTHER         -> {NamePadded, NameShort, Empty, Blank, Long(100)}

FieldsOf(chains) == {chains[i].field : i \in DOMAIN chains}

With(b, f, v) == [x \in DOMAIN b \cup {f} |-> IF x = f THEN v ELSE b[x]]

Drop(b, F) == [x \in DOMAIN b \ F |-> b[x]]

\* the most fields a submitted body lacks, short of lacking all of them
MaxMissing == 2

BaseBody(chains) == [f \in FieldsOf(chains) \ {"cdlLicense"} |-> Default(f)]

\* the bodies submitted to a form route: the valid base body, the base body
\* with one field changed, with up to MaxMissing fields missing, and {}
BodiesFor(chains) ==
    LET base == BaseBody(chains) IN
    {base}
    \cup {With(base, f, v) : <<f, v>> \in
             UNION {{f} \X Alternatives(f) : f \in FieldsOf(chains)}}
    \cup {Drop(base, F) : F \in {G \in SUBSET DOMAIN base : Cardinality(G) \in 1..MaxMissing}}
    \cup {Drop(base, DOMAIN base)}

\* scenario A of the quote form
QuoteBody ==
    [name |-> <<"J","o"," ","S","m","i","t","h">>, email |-> EmailMixed,
     phone |-> PhoneOk, details |-> <<"N","e","e","d"," ","a"," ","q","u","o","t","e">>]

NoBody == [f \in {} |-> <<>>]

\* the requests a client sends to a program
Requests(prog) ==
    UNION {[method : {"POST"}, path : {p}, body : BodiesFor(ChainsOf(prog, p))] :
              p \in PostRoutes(prog)}
    \cup [method : {"POST"}, path : {QuotePath, OtherPath} \cup (FormPaths \ PostRoutes(prog)),
          body : {QuoteBody}]
    \cup [method : {"GET"}, path : {HealthPath, CompanyPath}, body : {NoBody}]


(***************************************************************************)
(* State                                                                   *)
(***************************************************************************)
VARIABLES
    program,   \* which of the two programs runs
    env,       \* process.env
    hits,      \* the limiter's count for the client in the current window
    posts,     \* history: the client's POSTs per form path in the window
    pc,        \* the request flow: "idle", "dispatching", "responded"
    req,       \* the request: method, path, whether express.json() parsed
               \* the body, the body as sent, req.body
    errors,    \* validationResult(req).array()
    mails,     \* the sendMail calls made: the options and the outcome
    resp,      \* the response sent, NoResp before
    log,       \* the records logged for the request
    other      \* a second request handled at the same time: its own pc,
               \* req, errors, mails, resp and log

vars == <<program, env, hits, posts, pc, req, errors, mails, resp, log, other>>

NoReq == [method |-> "", path |-> "", parsed |-> FALSE, raw |-> NoBody, body |-> NoBody]

NoPosts == [p \in FormPaths |-> 0]

\* the state of one request flow
Flow(p, q, errs, ms, r, l) ==
    [pc |-> p, req |-> q, errors |-> errs, mails |-> ms, resp |-> r, log |-> l]

NoFlow == Flow("idle", NoReq, <<>>, <<>>, NoResp, <<>>)

\* the highest count the limiter reaches before the window is reset
MaxHits == 7

\* the most POSTs to form paths counted in one window
MaxPosts == 6

TotalPosts == posts[FleetWorkerPath] + posts[CompanyPath] + posts[GuardPath] + posts[QuotePath]

\* the app is constructed and listening, with no request in flight.  The
\* mail transport is taken as constructed (server.js builds it once from
\* nodemailer.createTransporter, part_000 builds one per request); one
\* request is followed at a time, from its arrival to its last sendMail
\* settling.
Init ==
    /\ program \in Programs
    /\ env \in Environments
    /\ hits = 0
    /\ posts = NoPosts
    /\ pc = "idle"
    /\ req = NoReq
    /\ errors = <<>>
    /\ mails = <<>>
    /\ resp = NoResp
    /\ log = <<>>
    /\ other = NoFlow

\* a request arrives and runs through limiter, routing, validation and the
\* handler up to its await
Receive(r) ==
    /\ pc = "idle"
    /\ hits < MaxHits
    /\ hits' = Counted(program, r.path, hits)
    /\ LET out == IF Limited(program, r.path, hits)
                  THEN Outcome(r.body, <<>>, <<>>, TooManyRequests, "responded", <<>>)
                  ELSE Dispatch(program, env, r.method, r.path, r.body)
       IN  /\ req' = [method |-> r.method, path |-> r.path, parsed |-> TRUE,
                       raw |-> r.body, body |-> out.body]
           /\ errors' = out.errors
           /\ mails' = out.mails
           /\ resp' = out.resp
           /\ pc' = out.pc
           /\ log' = out.log
    /\ UNCHANGED <<other, program, env>>

\* a POST whose body express.json() cannot parse: the error goes to the
\* error handler, no route handler runs
ReceiveMalformed(path, err) ==
    /\ pc = "idle"
    /\ hits < MaxHits
    /\ hits' = Counted(program, path, hits)
    /\ req' = [method |-> "POST", path |-> path, parsed |-> FALSE,
                raw |-> NoBody, body |-> NoBody]
    /\ IF Limited(program, path, hits)
       THEN resp' = TooManyRequests /\ log' = <<>>
       ELSE resp' = errorHandler(err, env) /\ log' = <<ErrorLog(err)>>
    /\ pc' = "responded"
    /\ UNCHANGED <<other, program, env, posts, errors, mails>>

\* OnAllSent with the route kept in a variable of the module, which a
\* request arriving in the meantime overwrites
OnAllSentShared(prog, path) ==
    LET last == IF other.pc # "idle" THEN other.req.path ELSE path IN
    [resp |-> Success(SuccessMessage(prog, last)),
     log  |-> <<InfoLog(SuccessMessage(prog, last))>>]

\* what follows the await when the last sendMail resolves: the info record
\* and the success response
OnAllSent(prog, path) ==
    [resp |-> Success(SuccessMessage(prog, path)),
     log  |-> <<InfoLog(SuccessMessage(prog, path))>>]

\* sendMail i resolves; Promise.all resolves once both have
SendResolve(i) ==
    /\ i \in Pending(mails)
    /\ mails' = MarkSent(mails, i)
    /\ IF Awaiting(pc) /\ AllSent(mails')
       THEN /\ resp' = OnAllSent(program, req.path).resp
            /\ log' = log \o OnAllSent(program, req.path).log
            /\ pc' = "responded"
       ELSE UNCHANGED <<resp, log, pc>>
    /\ UNCHANGED <<other, program, env, hits, posts, req, errors>>

\* OnRejected with the error swallowed: logged, and the success response sent
OnRejectedSwallowed(err, e) ==
    [resp |-> Success("Request submitted successfully"), log |-> <<ErrorLog(err)>>]

\* what the catch block does with the first rejection: next(error), which
\* runs the error handler
OnRejected(err, e) == [resp |-> errorHandler(err, e), log |-> <<ErrorLog(err)>>]

\* sendMail i rejects; Promise.all rejects at the first rejection, a later
\* one finds the promise settled
SendReject(i, err) ==
    /\ i \in Pending(mails)
    /\ mails' = MarkFailed(mails, i, err)
    /\ IF Awaiting(pc)
       THEN /\ resp' = OnRejected(err, env).resp
            /\ log' = log \o OnRejected(err, env).log
            /\ pc' = "responded"
       ELSE UNCHANGED <<resp, log, pc>>
    /\ UNCHANGED <<other, program, env, hits, posts, req, errors>>

\* the request is over: response sent and no sendMail outstanding
Close ==
    /\ pc = "responded"
    /\ Pending(mails) = {}
    /\ pc' = "idle"
    /\ req' = NoReq
    /\ errors' = <<>>
    /\ mails' = <<>>
    /\ resp' = NoResp
    /\ log' = <<>>
    /\ UNCHANGED <<other, program, env, hits, posts>>

\* windowMs elapses: the limiter's counts are reset
WindowReset ==
    /\ hits > 0 \/ posts # NoPosts
    /\ hits' = 0
    /\ posts' = NoPosts
    /\ UNCHANGED <<other, program, env, pc, req, errors, mails, resp, log>>

Settle ==
    \/ \E i \in 1..2 : SendResolve(i)
    \/ \E i \in 1..2, err \in DeliveryErrors : SendReject(i, err)

\* the request sets, computed once per program
FleetRequests == Requests("fleet")

GuardRequests == Requests("guard")

Incoming == IF program = "fleet" THEN FleetRequests ELSE GuardRequests

Next ==
    \/ pc = "idle" /\ \E r \in Incoming : Receive(r) /\ UNCHANGED posts
    \/ \E path \in PostRoutes(program), err \in ParseErrors : ReceiveMalformed(path, err)
    \/ Settle
    \/ Close
    \/ WindowReset

Spec == Init /\ [][Next]_vars

\* the requests of the rate-limit runs: one valid and one invalid body per
\* form path
RateRequests(prog) ==
    {r \in Requests(prog) :
        /\ r.method = "POST"
        /\ r.path \in FormPaths
        /\ r.body \in {QuoteBody, BaseBody(ChainsOf(prog, r.path)), NoBody}}

FleetRateRequests == RateRequests("fleet")

GuardRateRequests == RateRequests("guard")

IncomingRate == IF program = "fleet" THEN FleetRateRequests ELSE GuardRateRequests

\* the same program with the client's POSTs per form path recorded
NextRate ==
    \/ pc = "idle" /\ TotalPosts < MaxPosts /\ \E r \in IncomingRate :
          /\ Receive(r)
          /\ posts' = [posts EXCEPT ![r.path] = @ + 1]
    \/ Settle
    \/ Close
    \/ WindowReset

SpecRate == Init /\ [][NextRate]_vars

(***************************************************************************)
(* Two requests in flight                                                  *)
(***************************************************************************)
\* the first request as a flow
First == Flow(pc, req, errors, mails, resp, log)

\* the event loop turns from the one request in flight to the other: what
\* arrives or settles next belongs to the other request
Yield ==
    /\ First # other
    /\ pc' = other.pc
    /\ req' = other.req
    /\ errors' = other.errors
    /\ mails' = other.mails
    /\ resp' = other.resp
    /\ log' = other.log
    /\ other' = First
    /\ UNCHANGED <<program, env, hits, posts>>

\* the requests of the two-request runs: one valid body per served form path
\* and one body without fields
ConcRequests(prog) ==
    {r \in Requests(prog) :
        /\ r.method = "POST"
        /\ r.path \in PostRoutes(prog)
        /\ r.body \in {BaseBody(ChainsOf(prog, r.path)), NoBody}}

FleetConcRequests == ConcRequests("fleet")

GuardConcRequests == ConcRequests("guard")

IncomingConc == IF program = "fleet" THEN FleetConcRequests ELSE GuardConcRequests

\* the server with two requests in flight, their steps interleaved
NextConc ==
    \/ pc = "idle" /\ \E r \in IncomingConc : Receive(r) /\ UNCHANGED posts
    \/ Settle
    \/ Close
    \/ WindowReset
    \/ Yield

SpecConc == Init /\ [][NextConc]_vars


(***************************************************************************)
(* Properties                                                              *)
(***************************************************************************)
\* the request in flight reached a form handler: a POST with a parsed body
\* on a route the program serves, which the limiter let through
Handled ==
    /\ pc # "idle"
    /\ req.method = "POST"
    /\ req.path \in PostRoutes(program)
    /\ req.parsed
    /\ resp.status # 429

\* the violations of the body as it was sent
RawErrors == Validate(ChainsOf(program, req.path), req.raw).errors

SomeFailed == \E i \in DOMAIN mails : mails[i].state = "failed"

\* C1: a submission that passes validation makes exactly two sendMail calls,
\* the admin notification and the acknowledgment, never a third one, and the
\* success response is the response exactly when both calls have succeeded
C1_TwoDispatches ==
    (Handled /\ RawErrors = <<>>) =>
        /\ Len(mails) = 2
        /\ mails[1].kind = "admin"
        /\ mails[2].kind = "ack"
        /\ (resp.status = 200 /\ resp.state = "success")
               <=> (\A i \in DOMAIN mails : mails[i].state = "sent")
        /\ (pc = "responded" /\ resp.status # 200) => SomeFailed

\* C1 witness: a valid submission answered with the success response after
\* both of its calls succeeded
C1_Witness ==
    /\ Handled
    /\ RawErrors = <<>>
    /\ pc = "responded"
    /\ resp.status = 200
    /\ Len(mails) = 2
    /\ mails[1].state = "sent"
    /\ mails[2].state = "sent"

\* C2: once a sendMail call of the request has failed, the response is a
\* server error and never the success body, whatever the other call did
C2_FailureIsServerError ==
    (pc # "idle" /\ SomeFailed) =>
        /\ resp.status >= 500
        /\ resp.state # "success"
        /\ resp.keys \cap {"message", "status"} = {}

\* C2 witness: the acknowledgment failed after the admin notification had
\* already succeeded
C2_Witness ==
    /\ pc = "responded"
    /\ Len(mails) = 2
    /\ mails[1].state = "sent"
    /\ mails[2].state = "failed"
    /\ resp.status = 500

\* the position of a field's chain in the rule table of the route
ChainIndex(f) ==
    LET chains == ChainsOf(program, req.path)
    IN  CHOOSE k \in DOMAIN chains : chains[k].field = f

\* C3: a submission with a violated rule is answered 400 with every
\* violation, in the order the fields are declared, and no sendMail call is
\* made for it
C3_InvalidIsRejected ==
    (Handled /\ RawErrors # <<>>) =>
        LET chains == ChainsOf(program, req.path) IN
        /\ pc = "responded"
        /\ resp.status = 400
        /\ resp.keys = {"errors"}
        /\ mails = <<>>
        /\ \A k \in DOMAIN chains :
              \A e \in Range(RunChain(chains[k], req.raw).errors) :
                 \E i \in DOMAIN resp.errors :
                    resp.errors[i].param = e.param /\ resp.errors[i].msg = e.msg
        /\ \A i, j \in DOMAIN resp.errors :
              i < j => ChainIndex(resp.errors[i].param) <= ChainIndex(resp.errors[j].param)

\* C3 witness: a rejected submission with violations on three fields
C3_Witness ==
    /\ Handled
    /\ resp.status = 400
    /\ Cardinality({resp.errors[i].param : i \in DOMAIN resp.errors}) >= 3

\* C4 as claimed: no response while a sendMail call is unresolved
C4_NoResponseBeforeJoin ==
    (mails # <<>> /\ resp # NoResp) => Pending(mails) = {}

\* C4 amended: the success response is sent only when both sendMail calls
\* have resolved; a response sent while a call is unresolved is the error
\* response to a call that failed
C4_SuccessAfterJoin ==
    (pc # "idle" /\ mails # <<>>) =>
        /\ resp.status = 200 => Pending(mails) = {}
        /\ (resp # NoResp /\ Pending(mails) # {}) => (resp.status = 500 /\ SomeFailed)
        /\ (resp = NoResp) => (Pending(mails) # {} /\ ~SomeFailed)

\* C4 witness: the error response is out and the other call still pending
C4_Witness ==
    /\ resp.status = 500
    /\ mails[1].state = "failed"
    /\ mails[2].state = "pending"


\* a field value made of spaces only (the empty string included)
IsBlankString(v) == \A i \in DOMAIN v : v[i] = " "

\* the field is missing from the body as sent, empty or whitespace-only
Lacks(f) == f \notin DOMAIN req.raw \/ IsBlankString(req.raw[f])

HasErrorFor(f) == \E i \in DOMAIN resp.errors : resp.errors[i].param = f

\* the required fields of the endpoint table; on submit-company the city
\* and the type field go by the name the program uses
TableRequired(prog, path) ==
    CASE path = GuardPath ->
             {"fullName", "email", "phone", "city", "license", "yearsOfExperience", "details"}
      [] path = FleetWorkerPath ->
             {"firstName", "lastName", "email", "phone", "city", "specialtyCategory",
              "specialtySubcategory", "yearsOfExperience", "details"}
      [] path = CompanyPath ->
             {"companyName", "email", "phone", "firstName", "lastName",
              "numberOfGuards", "service", "details"}
             \cup (IF prog = "fleet" THEN {"cityProvince", "majorArea"}
                                     ELSE {"city", "securityGuardType"})
      [] OTHER -> {}

\* the table's required fields without details, and without numberOfGuards
\* and service where the fleet program's submit-company is concerned
RejectedWhenLacking(prog, path) ==
    (TableRequired(prog, path) \ {"details"})
    \ (IF prog = "fleet" /\ path = CompanyPath THEN {"numberOfGuards", "service"} ELSE {})

\* C5 as claimed: lacking any field the endpoint table lists as required,
\* details included, gets the submission rejected with an entry for it
C5_TableFieldsRequired ==
    Handled =>
        \A f \in TableRequired(program, req.path) :
            Lacks(f) => (resp.status = 400 /\ HasErrorFor(f))

\* C5 amended: lacking a required field of the table other than details
\* (and other than numberOfGuards and service on the fleet program's
\* submit-company) gets the submission rejected with 400 and an entry for
\* that field; lacking details never produces an entry for details
C5_DeclaredFieldsRequired ==
    Handled =>
        /\ \A f \in RejectedWhenLacking(program, req.path) :
              Lacks(f) => (resp.status = 400 /\ HasErrorFor(f))
        /\ Lacks("details") => ~HasErrorFor("details")

\* C5 witness: a whitespace-only required field was rejected, with its entry
C5_Witness ==
    /\ Handled
    /\ \E f \in RejectedWhenLacking(program, req.path) :
          /\ f \in DOMAIN req.raw
          /\ req.raw[f] = Blank
          /\ HasErrorFor(f)
    /\ resp.status = 400

\* C6: the email of an accepted submission is lowercase and trimmed after
\* validation, and that value is the admin mail's replyTo, the
\* acknowledgment's recipient and the email printed in the admin HTML
C6_EmailNormalized ==
    (Handled /\ mails # <<>>) =>
        LET e == req.body["email"] IN
        /\ e # <<>>
        /\ \A i \in DOMAIN e : ~IsUpper(e[i])
        /\ ~IsSpace(e[1])
        /\ ~IsSpace(e[Len(e)])
        /\ mails[1].replyTo = e
        /\ mails[2].to = e
        /\ mails[1].html.Email = e

\* C6 witness: " Jo@Example.com " was accepted and replies go to
\* jo@example.com
C6_Witness ==
    /\ Handled
    /\ mails # <<>>
    /\ req.raw["email"] = EmailMixed
    /\ mails[1].replyTo = <<"j","o","@","e","x","a","m","p","l","e",".","c","o","m">>

\* C7: the sixth POST of the client to a served form route within a window
\* is rejected by the limiter and reaches neither validation nor dispatch
C7_LimiterOnEveryRoute ==
    (/\ pc # "idle"
     /\ req.method = "POST"
     /\ req.path \in PostRoutes(program)
     /\ posts[req.path] > RateMax)
        => (resp.status = 429 /\ errors = <<>> /\ mails = <<>>)

\* C8: a valid quote submission that the limiter lets through is answered
\* 200 with the quote success body, from two mails of which the admin one
\* goes to the admin address with the normalized email as replyTo
C8_QuoteServed ==
    (/\ pc = "responded"
     /\ req.method = "POST"
     /\ req.path = QuotePath
     /\ req.raw = QuoteBody
     /\ resp.status # 429)
        => /\ resp.status \in {200, 500}
           /\ Len(mails) = 2
           /\ mails[1].to = AdminTo(env)
           /\ mails[1].replyTo = <<"j","o","@","e","x","a","m","p","l","e",".","c","o","m">>
           /\ AllSent(mails) => (resp.status = 200 /\ resp.state = "success"
                                 /\ resp.message = "Quote submitted successfully")

\* C9: the label in both fleet-worker mails is the lookup entry of the
\* (trimmed) category code when the table has one, and the code itself
\* otherwise
C9_LabelOrRawCode ==
    (Handled /\ program = "fleet" /\ req.path = FleetWorkerPath /\ mails # <<>>) =>
        LET code     == req.body["specialtyCategory"]
            expected == IF code \in DOMAIN specialtyCategories
                        THEN specialtyCategories[code] ELSE code
        IN  /\ mails[1].html.Label = expected
            /\ mails[2].html.Label = expected

\* C10: a failed sendMail is answered 500 with a body {error}; in production
\* the string is the generic message and none of the delivery errors'
\* messages, otherwise it is the message of the error that was forwarded
C10_ErrorResponse ==
    (pc # "idle" /\ SomeFailed) =>
        /\ resp.status = 500
        /\ resp.keys = {"error"}
        /\ env.NODE_ENV = "production" =>
              /\ resp.error = GenericError
              /\ \A d \in DeliveryErrors : resp.error # d.message
        /\ env.NODE_ENV # "production" =>
              /\ \E i \in DOMAIN mails :
                    mails[i].state = "failed" /\ mails[i].error = resp.error
              /\ \E k \in DOMAIN log :
                    log[k].level = "error" /\ log[k].message = resp.error

\* C10 witness: in production a delivery failure was answered with the
\* generic message
C10_Witness ==
    /\ env.NODE_ENV = "production"
    /\ SomeFailed
    /\ resp.status = 500
    /\ resp.error = GenericError


\* the client's POSTs of the window to the paths the limiter is mounted on
LimitedPosts ==
    IF program = "fleet" THEN posts[CompanyPath] + posts[FleetWorkerPath]
                         ELSE posts[QuotePath]

\* C11 as claimed: a POST to a served form route is admitted as long as the
\* client has sent no more than five POSTs to that route in the window,
\* whatever it sent to the other routes
C11_PerRouteCounter ==
    (/\ pc # "idle"
     /\ req.method = "POST"
     /\ req.path \in PostRoutes(program)
     /\ posts[req.path] >= 1
     /\ posts[req.path] <= RateMax)
        => resp.status # 429

\* C11 amended: the limiter keeps one count per client for all the routes it
\* is mounted on; a POST to a limited route is rejected once the client's
\* POSTs of the window to the limited routes together exceed five
C11_SharedCounter ==
    /\ hits = LimitedPosts
    /\ (/\ pc # "idle"
        /\ req.method = "POST"
        /\ req.path \in LimitedPaths(program)
        /\ LimitedPosts > RateMax)
           => (resp.status = 429 /\ errors = <<>> /\ mails = <<>>)

\* C11 witness: after five POSTs to submit-company the first POST to
\* submit-fleet-worker is rejected by the limiter
C11_Witness ==
    /\ program = "fleet"
    /\ posts[CompanyPath] = RateMax
    /\ posts[FleetWorkerPath] = 1
    /\ req.path = FleetWorkerPath
    /\ resp.status = 429


\* the records of the given level logged for the request
LogOf(level) == {i \in DOMAIN log : log[i].level = level}

\* one response at most, and the log agrees with it
OneOutcome ==
    Handled =>
        /\ resp = NoResp => (log = <<>> /\ Pending(mails) # {})
        /\ resp.status = 200 => (LogOf("info") # {} /\ LogOf("error") = {} /\ Len(log) = 1)
        /\ resp.status = 500 => (LogOf("info") = {} /\ Len(log) = 1)
        /\ resp.status = 400 => log = <<>>
        /\ resp.status \in {0, 200, 400, 500}

\* a step of a request that has its response leaves the response and the
\* log as they are
NothingAfterResponse ==
    (resp # NoResp /\ pc' # "idle") => (resp' = resp /\ log' = log)

\* C12: a request that reached a form handler gets one response: never a
\* success and an error, never two errors, and a dispatch outcome that
\* arrives after the response changes neither the response nor the log
C12_OneResponse == []OneOutcome /\ [][NothingAfterResponse]_vars

\* C12 witness: both dispatches failed with different errors, the second
\* after the 500 response to the first, and one error record is logged
C12_Witness ==
    /\ Handled
    /\ pc = "responded"
    /\ resp.status = 500
    /\ Pending(mails) = {}
    /\ mails[1].state = "failed"
    /\ mails[2].state = "failed"
    /\ mails[1].error # mails[2].error
    /\ Len(log) = 1


\* the mail options of a flow, without the outcomes
Options(f) == [i \in DOMAIN f.mails |-> [f.mails[i] EXCEPT !.state = "pending", !.error = ""]]

\* the errors the flow's own failed dispatches were rejected with
OwnErrors(f) ==
    {e \in DeliveryErrors :
        \E i \in DOMAIN f.mails : f.mails[i].state = "failed" /\ f.mails[i].error = e.message}

\* a flow that reached a form handler is what its own body and its own two
\* dispatch outcomes make it
OwnOutcome(f) ==
    (/\ f.pc # "idle"
     /\ f.req.method = "POST"
     /\ f.req.path \in PostRoutes(program)
     /\ f.resp.status # 429)
    =>
    LET v == Validate(ChainsOf(program, f.req.path), f.req.raw) IN
    /\ f.errors = v.errors
    /\ f.req.body = v.body
    /\ v.errors # <<>> => (f.resp = BadRequest(v.errors) /\ f.mails = <<>> /\ f.log = <<>>)
    /\ v.errors = <<>> =>
        /\ Options(f) = MailsOf(program, f.req.path, v.body, env)
        /\ AllSent(f.mails) =>
              /\ f.resp = Success(SuccessMessage(program, f.req.path))
              /\ f.log = <<InfoLog(SuccessMessage(program, f.req.path))>>
        /\ OwnErrors(f) # {} =>
              \E e \in OwnErrors(f) :
                  f.resp = errorHandler(e, env) /\ f.log = <<ErrorLog(e)>>
        /\ (OwnErrors(f) = {} /\ ~AllSent(f.mails)) => (f.resp = NoResp /\ f.log = <<>>)

\* C13: with two requests in flight and their steps interleaved in any
\* order, each request's violations, its two messages and its response are
\* those of its own body and its own two dispatch outcomes
C13_NoInterference == OwnOutcome(First) /\ OwnOutcome(other)

\* C13 witness: two requests to different routes are in flight together, one
\* answered with success while the other has a failed dispatch
C13_Witness ==
    /\ pc = "responded"
    /\ other.pc = "responded"
    /\ req.path # other.req.path
    /\ resp.status = 200
    /\ other.resp.status = 500
    /\ req.body # other.req.body


\* the number of digits in a string
DigitCount(s) == Cardinality({i \in DOMAIN s : IsDigit(s[i])})

PhoneViolation == \E i \in DOMAIN errors : errors[i].param = "phone"

\* C14 as claimed: on every form a phone value that validation accepts has
\* at least ten digits, and a phone value with fewer digits gets a violation
\* on phone
C14_MinDigits ==
    (Handled /\ "phone" \in DOMAIN req.body) =>
        /\ ~PhoneViolation => DigitCount(req.body["phone"]) >= MinPhoneChars
        /\ DigitCount(req.body["phone"]) < MinPhoneChars => PhoneViolation

=============================================================================
